---- MODULE Spec2Model ----
(***************************************************************************)
(* The catalog controllers of express-locallibrary-web (Genre, Book and    *)
(* BookInstance) as a state machine over the three document collections.   *)
(* Spec runs every request to completion before the next one starts;       *)
(* SpecConc runs requests as tasks that suspend at every storage call.      *)
(***************************************************************************)
EXTENDS Integers, Sequences, FiniteSets, TLC

VARIABLES
  genres,      \* Genre collection: _id -> [name]
  books,       \* Book collection: _id -> [title, author, summary, isbn, genre]
  instances,   \* BookInstance collection: _id -> [book, imprint, status, due_back]
  nextGenre,   \* number of Genre ids generated so far
  nextBook,    \* number of Book ids generated so far
  nextInst,    \* number of BookInstance ids generated so far
  req,         \* the request handled last (Spec)
  res,         \* the response calls that request's handler made, in order (Spec)
  tasks        \* the requests in flight or completed (SpecConc)

vars == <<genres, books, instances, nextGenre, nextBook, nextInst, req, res, tasks>>
store == <<genres, books, instances, nextGenre, nextBook, nextInst>>

\* Bound: documents ever created, over the three collections.
MaxDocs == 3
\* Bound: requests ever started in SpecConc.
MaxRequests == 3

\* isLength({ min: 3 }) of the genre name.
MinGenreNameLen == 3
\* isLength({ min: 1 }) of the required text fields.
MinFieldLen == 1

(***************************************************************************)
(* Text: a string is a sequence of one-character strings.                  *)
(***************************************************************************)
RECURSIVE LTrim(_)
LTrim(s) == IF s # <<>> /\ Head(s) = " " THEN LTrim(Tail(s)) ELSE s

RECURSIVE RTrim(_)
RTrim(s) == IF s # <<>> /\ s[Len(s)] = " " THEN RTrim(SubSeq(s, 1, Len(s) - 1)) ELSE s

\* .trim()
Trim(s) == RTrim(LTrim(s))

EscapeChar(c) ==
  CASE c = "&" -> <<"&", "a", "m", "p", ";">>
    [] c = "<" -> <<"&", "l", "t", ";">>
    [] c = ">" -> <<"&", "g", "t", ";">>
    [] c = "/" -> <<"&", "#", "x", "2", "F", ";">>
    [] c = "'" -> <<"&", "#", "x", "2", "7", ";">>
    [] OTHER -> <<c>>

RECURSIVE Escape(_)
\* .escape(): HTML-escapes the special characters
Escape(s) == IF s = <<>> THEN <<>> ELSE EscapeChar(Head(s)) \o Escape(Tail(s))

LowerChar(c) ==
  CASE c = "F" -> "f"
    [] c = "A" -> "a"
    [] c = "N" -> "n"
    [] c = "S" -> "s"
    [] OTHER -> c

\* The collation { locale: "en", strength: 2 } compares ignoring case.
Fold(s) == [i \in 1..Len(s) |-> LowerChar(s[i])]

\* The derived url of a document: its type and its id.
Url(type, id) == [to |-> type, id |-> id]

\* Response calls.
Render(view, errors) == [kind |-> "render", to |-> view, id |-> 0, errors |-> errors]
Redirect(url) == [kind |-> "redirect", to |-> url.to, id |-> url.id, errors |-> <<>>]
NextErr(what) == [kind |-> "next", to |-> what, id |-> 0, errors |-> <<>>]

GenreList == [to |-> "genres", id |-> 0]
BookList == [to |-> "books", id |-> 0]
BookInstanceList == [to |-> "bookinstances", id |-> 0]

(***************************************************************************)
(* Storage calls.                                                          *)
(***************************************************************************)
NoDocs == [i \in {} |-> 0]

Docs == nextGenre + nextBook + nextInst

\* doc.save(): inserts the new document under its generated id
Save(coll, id, doc) == [i \in DOMAIN coll \cup {id} |-> IF i = id THEN doc ELSE coll[i]]

\* Mutant: the update is looked up but never written.
FindByIdOnly(coll, id, doc) == coll

\* Model.findByIdAndUpdate(id, doc): replaces the fields of the stored document, if any
FindByIdAndUpdate(coll, id, doc) ==
  IF id \in DOMAIN coll THEN [coll EXCEPT ![id] = doc] ELSE coll

\* Mutant: the delete call removes nothing.
FindByIdAndKeep(coll, id) == coll

\* Model.findByIdAndDelete(id)
FindByIdAndDelete(coll, id) == [i \in DOMAIN coll \ {id} |-> coll[i]]

\* Model.findById(id) !== null
Found(coll, id) == id \in DOMAIN coll

\* Mutant: the lookup without the collation, an exact match.
GenreFindOneExact(gs, name) == {g \in DOMAIN gs : gs[g].name = name}

\* Genre.findOne({ name }).collation({ locale: "en", strength: 2 }): the matching ids
GenreFindOne(gs, name) == {g \in DOMAIN gs : Fold(gs[g].name) = Fold(name)}

Range(s) == {s[i] : i \in DOMAIN s}

\* Book.find({ genre: id })
BooksInGenre(bs, id) == {b \in DOMAIN bs : id \in Range(bs[b].genre)}

\* Mutant: the lookup by the instance's own id.
InstancesById(is, id) == {i \in DOMAIN is : i = id}

\* BookInstance.find({ book: id })
InstancesOfBook(is, id) == {i \in DOMAIN is : is[i].book = id}

(***************************************************************************)
(* Request inputs.                                                         *)
(***************************************************************************)
RawGenreNames ==
  { <<"F", "a", "n">>, <<" ", "f", "a", "n", " ">>, <<"s", "&", "f">>, <<"f", "a", " ">> }

GenreIds == 1..(nextGenre + 1)
BookIds == 1..(nextBook + 1)
InstIds == 1..(nextInst + 1)

(***************************************************************************)
(* Genre controller.                                                       *)
(***************************************************************************)
\* body("name").trim().isLength({ min: 3 }).escape()
GenreNameErrors(raw) == IF Len(Trim(raw)) >= MinGenreNameLen THEN <<>> ELSE <<"name">>
GenreName(raw) == Escape(Trim(raw))

\* Mutant: a save that a unique index on the folded name rejects.
GenreSaveUnique(gs, id, name) ==
  IF \E g \in DOMAIN gs : Fold(gs[g].name) = Fold(name) THEN gs
  ELSE [i \in DOMAIN gs \cup {id} |-> IF i = id THEN [name |-> name] ELSE gs[i]]

\* await genre.save()
GenreSave(gs, id, name) == Save(gs, id, [name |-> name])

genre_create_post ==
  \E raw \in RawGenreNames :
    LET name == GenreName(raw)
        errors == GenreNameErrors(raw)
        genreExists == GenreFindOne(genres, name)
    IN /\ req' = [handler |-> "genre_create_post", id |-> 0, bodyId |-> 0, body |-> [name |-> raw]]
       /\ IF errors # <<>>
          THEN /\ res' = <<Render("genre_form", errors)>>
               /\ UNCHANGED store
          ELSE IF genreExists # {}
          THEN /\ \E g \in genreExists : res' = <<Redirect(Url("genre", g))>>
               /\ UNCHANGED store
          ELSE /\ Docs < MaxDocs
               /\ nextGenre' = nextGenre + 1
               /\ genres' = GenreSave(genres, nextGenre + 1, name)
               /\ res' = <<Redirect(Url("genre", nextGenre + 1))>>
               /\ UNCHANGED <<books, instances, nextBook, nextInst>>
       /\ UNCHANGED tasks

genre_delete_get ==
  \E id \in GenreIds :
    /\ req' = [handler |-> "genre_delete_get", id |-> id, bodyId |-> 0, body |-> <<>>]
    /\ res' = (IF ~Found(genres, id) THEN <<Redirect(GenreList)>> ELSE <<>>)
                \o <<Render("genre_delete", <<>>)>>
    /\ UNCHANGED <<store, tasks>>

genre_delete_post ==
  \E id \in GenreIds, bodyId \in GenreIds :
    /\ req' = [handler |-> "genre_delete_post", id |-> id, bodyId |-> bodyId, body |-> <<>>]
    /\ IF BooksInGenre(books, id) # {}
       THEN /\ res' = <<Render("genre_delete", <<>>)>>
            /\ UNCHANGED store
       ELSE /\ genres' = FindByIdAndDelete(genres, bodyId)
            /\ res' = <<Redirect(GenreList)>>
            /\ UNCHANGED <<books, instances, nextGenre, nextBook, nextInst>>
    /\ UNCHANGED tasks

genre_update_post ==
  \E id \in GenreIds, raw \in RawGenreNames :
    LET name == GenreName(raw)
        errors == GenreNameErrors(raw)
    IN /\ req' = [handler |-> "genre_update_post", id |-> id, bodyId |-> 0, body |-> [name |-> raw]]
       /\ IF errors # <<>>
          THEN /\ res' = <<Render("genre_form", errors)>>
               /\ UNCHANGED store
          ELSE /\ genres' = FindByIdAndUpdate(genres, id, [name |-> name])
               /\ res' = <<Redirect(Url("genre", id))>>
               /\ UNCHANGED <<books, instances, nextGenre, nextBook, nextInst>>
       /\ UNCHANGED tasks

(***************************************************************************)
(* Book controller.                                                        *)
(***************************************************************************)
\* req.body.genre as the body parser delivers it
NoGenre == [kind |-> "undefined", v |-> <<>>]
OneGenre(g) == [kind |-> "scalar", v |-> <<g>>]
GenreArray(a) == [kind |-> "array", v |-> a]

BookBody(title, author, summary, isbn, genre) ==
  [title |-> title, author |-> author, summary |-> summary, isbn |-> isbn, genre |-> genre]

RawBookBodies ==
  { BookBody(<<" ", "<">>, <<"a">>, <<"s">>, <<"i">>, OneGenre(1)),
    BookBody(<<"t">>, <<"a">>, <<"s">>, <<"i">>, GenreArray(<<1, 2>>)),
    BookBody(<<>>, <<"a">>, <<"s">>, <<"i">>, NoGenre),
    BookBody(<<"t">>, <<" ">>, <<>>, <<"i">>, GenreArray(<<1, 2>>)) }

\* The first middleware: req.body.genre becomes an array. The ids in it are
\* hexadecimal strings, which body("genre.*").escape() leaves as they are.
NormalizeGenre(g) == IF g.kind = "array" THEN g.v ELSE IF g.kind = "undefined" THEN <<>> ELSE g.v

\* body(field).trim().isLength({ min: 1 }).escape()
FieldError(raw, field) == IF Len(Trim(raw)) >= MinFieldLen THEN <<>> ELSE <<field>>
Field(raw) == Escape(Trim(raw))

BookErrors(b) ==
  FieldError(b.title, "title") \o FieldError(b.author, "author")
    \o FieldError(b.summary, "summary") \o FieldError(b.isbn, "isbn")

\* new Book({ ... }) from the sanitized body
BookDoc(b) ==
  [title |-> Field(b.title), author |-> Field(b.author), summary |-> Field(b.summary),
   isbn |-> Field(b.isbn), genre |-> NormalizeGenre(b.genre)]

book_create_post ==
  \E body \in RawBookBodies :
    /\ req' = [handler |-> "book_create_post", id |-> 0, bodyId |-> 0, body |-> body]
    /\ IF BookErrors(body) # <<>>
       THEN /\ res' = <<Render("book_form", BookErrors(body))>>
            /\ UNCHANGED store
       ELSE /\ Docs < MaxDocs
            /\ nextBook' = nextBook + 1
            /\ books' = Save(books, nextBook + 1, BookDoc(body))
            /\ res' = <<Redirect(Url("book", nextBook + 1))>>
            /\ UNCHANGED <<genres, instances, nextGenre, nextInst>>
    /\ UNCHANGED tasks

book_delete_get ==
  \E id \in BookIds :
    /\ req' = [handler |-> "book_delete_get", id |-> id, bodyId |-> 0, body |-> <<>>]
    /\ res' = (IF ~Found(books, id) THEN <<Redirect(BookList)>> ELSE <<>>)
                \o <<Render("book_delete", <<>>)>>
    /\ UNCHANGED <<store, tasks>>

book_delete_post ==
  \E id \in BookIds, bodyId \in BookIds :
    LET missing == IF ~Found(books, id) THEN <<Redirect(BookList)>> ELSE <<>>
    IN /\ req' = [handler |-> "book_delete_post", id |-> id, bodyId |-> bodyId, body |-> <<>>]
       /\ IF InstancesOfBook(instances, id) # {}
          THEN /\ res' = missing \o <<Render("book_delete", <<>>)>>
               /\ UNCHANGED store
          ELSE /\ books' = FindByIdAndDelete(books, bodyId)
               /\ res' = missing \o <<Redirect(BookList)>>
               /\ UNCHANGED <<genres, instances, nextGenre, nextBook, nextInst>>
       /\ UNCHANGED tasks

book_update_post ==
  \E id \in BookIds, body \in RawBookBodies :
    /\ req' = [handler |-> "book_update_post", id |-> id, bodyId |-> 0, body |-> body]
    /\ IF BookErrors(body) # <<>>
       THEN /\ res' = <<Render("book_form", BookErrors(body))>>
            /\ UNCHANGED store
       ELSE /\ books' = FindByIdAndUpdate(books, id, BookDoc(body))
            \* thebook.url: thebook is null when no Book has the id
            /\ res' = IF Found(books, id) THEN <<Redirect(Url("book", id))>>
                      ELSE <<NextErr("TypeError")>>
            /\ UNCHANGED <<genres, instances, nextGenre, nextBook, nextInst>>
    /\ UNCHANGED tasks

(***************************************************************************)
(* BookInstance controller.                                                *)
(***************************************************************************)
Digit(c) ==
  CASE c = "0" -> 0 [] c = "1" -> 1 [] c = "2" -> 2 [] c = "3" -> 3 [] c = "4" -> 4
    [] c = "5" -> 5 [] c = "6" -> 6 [] c = "7" -> 7 [] c = "8" -> 8 [] c = "9" -> 9
    [] OTHER -> -1

Num(s, from, to) ==
  LET RECURSIVE N(_)
      N(i) == IF i < from THEN 0 ELSE 10 * N(i - 1) + Digit(s[i])
  IN N(to)

\* .isISO8601(), for the calendar-date form YYYY-MM-DD, the one form of the inputs
IsISO8601(s) ==
  /\ Len(s) = 10
  /\ s[5] = "-" /\ s[8] = "-"
  /\ \A i \in {1, 2, 3, 4, 6, 7, 9, 10} : Digit(s[i]) >= 0
  /\ Num(s, 6, 7) \in 1..12
  /\ Num(s, 9, 10) \in 1..31

NoDate == [y |-> 0, m |-> 0, d |-> 0]

\* .toDate()
ToDate(s) ==
  IF IsISO8601(s) THEN [y |-> Num(s, 1, 4), m |-> Num(s, 6, 7), d |-> Num(s, 9, 10)]
  ELSE NoDate

\* body("due_back").optional({ values: "falsy" }).isISO8601().toDate()
DueBackErrors(raw) == IF raw = <<>> \/ IsISO8601(raw) THEN <<>> ELSE <<"due_back">>
DueBack(raw) == IF raw = <<>> THEN NoDate ELSE ToDate(raw)

\* req.body.book is the id of a Book, or the empty string (written 0)
NoBook == 0
BookRefErrors(book) == IF book = NoBook THEN <<"book">> ELSE <<>>

InstBody(book, imprint, status, due_back) ==
  [book |-> book, imprint |-> imprint, status |-> status, due_back |-> due_back]

Loaned == <<"L", "o", "a", "n", "e", "d">>
ADate == <<"2", "0", "2", "0", "-", "0", "1", "-", "3", "1">>
NotADate == <<"n", "o", "t", "-", "a", "-", "d", "a", "t", "e">>

RawInstBodies ==
  { InstBody(1, <<"x">>, Loaned, <<>>),
    InstBody(2, <<" ", "x", " ">>, <<"<">>, ADate),
    InstBody(1, <<"x">>, Loaned, NotADate),
    InstBody(NoBook, <<"x">>, Loaned, <<>>),
    InstBody(2, <<" ">>, Loaned, ADate) }

InstErrors(b) ==
  BookRefErrors(b.book) \o FieldError(b.imprint, "imprint") \o DueBackErrors(b.due_back)

\* new BookInstance({ ... }) from the sanitized body
InstDoc(b) ==
  [book |-> b.book, imprint |-> Field(b.imprint), status |-> Escape(b.status),
   due_back |-> DueBack(b.due_back)]

\* The error branch: selected_book: bookInstance.book._id, then res.render. The
\* empty string casts to no ObjectId, bookInstance.book is undefined and reading
\* its _id throws.
InstFormResponse(b) ==
  IF b.book = NoBook THEN <<NextErr("TypeError")>>
  ELSE <<Render("bookinstance_form", InstErrors(b))>>

bookinstance_create_post ==
  \E body \in RawInstBodies :
    /\ req' = [handler |-> "bookinstance_create_post", id |-> 0, bodyId |-> 0, body |-> body]
    /\ IF InstErrors(body) # <<>>
       THEN /\ res' = InstFormResponse(body)
            /\ UNCHANGED store
       ELSE /\ Docs < MaxDocs
            /\ nextInst' = nextInst + 1
            /\ instances' = Save(instances, nextInst + 1, InstDoc(body))
            /\ res' = <<Redirect(Url("bookinstance", nextInst + 1))>>
            /\ UNCHANGED <<genres, books, nextGenre, nextBook>>
    /\ UNCHANGED tasks

bookinstance_delete_get ==
  \E id \in InstIds :
    /\ req' = [handler |-> "bookinstance_delete_get", id |-> id, bodyId |-> 0, body |-> <<>>]
    /\ res' = (IF ~Found(instances, id) THEN <<Redirect(BookInstanceList)>> ELSE <<>>)
                \o <<Render("bookinstance_delete", <<>>)>>
    /\ UNCHANGED <<store, tasks>>

\* The handler reads req.body.id alone: the request is taken with that id in its route.
bookinstance_delete_post ==
  \E bodyId \in InstIds :
    /\ req' = [handler |-> "bookinstance_delete_post", id |-> bodyId, bodyId |-> bodyId, body |-> <<>>]
    /\ instances' = FindByIdAndDelete(instances, bodyId)
    /\ res' = <<Redirect(BookInstanceList)>>
    /\ UNCHANGED <<genres, books, nextGenre, nextBook, nextInst, tasks>>

bookinstance_update_post ==
  \E id \in InstIds, body \in RawInstBodies :
    /\ req' = [handler |-> "bookinstance_update_post", id |-> id, bodyId |-> 0, body |-> body]
    /\ IF InstErrors(body) # <<>>
       THEN /\ res' = InstFormResponse(body)
            /\ UNCHANGED store
       ELSE /\ instances' = FindByIdAndUpdate(instances, id, InstDoc(body))
            /\ res' = <<Redirect(Url("bookinstance", id))>>
            /\ UNCHANGED <<genres, books, nextGenre, nextBook, nextInst>>
    /\ UNCHANGED tasks

Init ==
  /\ genres = NoDocs
  /\ books = NoDocs
  /\ instances = NoDocs
  /\ nextGenre = 0
  /\ nextBook = 0
  /\ nextInst = 0
  /\ req = [handler |-> "none", id |-> 0, bodyId |-> 0, body |-> <<>>]
  /\ res = <<>>
  /\ tasks = <<>>

Next ==
  \/ genre_create_post
  \/ genre_delete_get
  \/ genre_delete_post
  \/ genre_update_post
  \/ book_create_post
  \/ book_delete_get
  \/ book_delete_post
  \/ book_update_post
  \/ bookinstance_create_post
  \/ bookinstance_delete_get
  \/ bookinstance_delete_post
  \/ bookinstance_update_post

Spec == Init /\ [][Next]_vars

(***************************************************************************)
(* Requests as tasks: a task suspends at every storage call, and the       *)
(* storage serves the calls of all tasks in any order.  The two lookups of *)
(* a Promise.all are two calls.  A delete form posts the id of its route.  *)
(***************************************************************************)
Task(handler, id, body, pc, live) ==
  [handler |-> handler, id |-> id, body |-> body, pc |-> pc, live |-> live,
   gotEntity |-> FALSE, entity |-> FALSE, gotDeps |-> FALSE, deps |-> {},
   docId |-> 0, res |-> <<>>]

ConcGenreNames == { <<"F", "a", "n">>, <<"f", "a", "n">>, <<"f", "a">> }

ConcBookBodies ==
  { BookBody(<<"t">>, <<"a">>, <<"s">>, <<"i">>, NoGenre),
    BookBody(<<"t">>, <<"a">>, <<"s">>, <<"i">>, OneGenre(1)),
    BookBody(<<>>, <<"a">>, <<"s">>, <<"i">>, OneGenre(1)) }

ConcInstBodies ==
  { InstBody(1, <<"x">>, Loaned, <<>>),
    InstBody(1, <<>>, Loaned, <<>>) }

Started(t) == tasks' = Append(tasks, t)
Resumed(i, t) == tasks' = [tasks EXCEPT ![i] = t]
At(i, handler, pc) == tasks[i].handler = handler /\ tasks[i].pc = pc

genre_create_post_begin ==
  \E raw \in ConcGenreNames :
    /\ Len(tasks) < MaxRequests
    /\ IF GenreNameErrors(raw) # <<>>
       THEN Started([Task("genre_create_post", 0, [name |-> raw], "done", {})
                       EXCEPT !.res = <<Render("genre_form", GenreNameErrors(raw))>>])
       ELSE Started(Task("genre_create_post", 0, [name |-> raw], "findOne", {}))
    /\ UNCHANGED <<store, req, res>>

genre_create_post_findOne ==
  \E i \in DOMAIN tasks :
    LET genreExists == GenreFindOne(genres, GenreName(tasks[i].body.name))
    IN /\ At(i, "genre_create_post", "findOne")
       /\ IF genreExists # {}
          THEN \E g \in genreExists :
                 Resumed(i, [tasks[i] EXCEPT !.pc = "done", !.entity = TRUE,
                                             !.res = <<Redirect(Url("genre", g))>>])
          ELSE Resumed(i, [tasks[i] EXCEPT !.pc = "save"])
       /\ UNCHANGED <<store, req, res>>

genre_create_post_save ==
  \E i \in DOMAIN tasks :
    /\ At(i, "genre_create_post", "save")
    /\ Docs < MaxDocs
    /\ nextGenre' = nextGenre + 1
    /\ genres' = GenreSave(genres, nextGenre + 1, GenreName(tasks[i].body.name))
    /\ Resumed(i, [tasks[i] EXCEPT !.pc = "done", !.docId = nextGenre + 1,
                                   !.res = <<Redirect(Url("genre", nextGenre + 1))>>])
    /\ UNCHANGED <<books, instances, nextBook, nextInst, req, res>>

book_create_post_begin ==
  \E body \in ConcBookBodies :
    /\ Len(tasks) < MaxRequests
    /\ Started(Task("book_create_post", 0, body,
                    IF BookErrors(body) # <<>> THEN "form" ELSE "save",
                    Range(NormalizeGenre(body.genre)) \cap DOMAIN genres))
    /\ UNCHANGED <<store, req, res>>

book_create_post_form ==
  \E i \in DOMAIN tasks :
    /\ At(i, "book_create_post", "form")
    /\ Resumed(i, [tasks[i] EXCEPT !.pc = "done",
                                   !.res = <<Render("book_form", BookErrors(tasks[i].body))>>])
    /\ UNCHANGED <<store, req, res>>

book_create_post_save ==
  \E i \in DOMAIN tasks :
    /\ At(i, "book_create_post", "save")
    /\ Docs < MaxDocs
    /\ nextBook' = nextBook + 1
    /\ books' = Save(books, nextBook + 1, BookDoc(tasks[i].body))
    /\ Resumed(i, [tasks[i] EXCEPT !.pc = "done", !.docId = nextBook + 1,
                                   !.res = <<Redirect(Url("book", nextBook + 1))>>])
    /\ UNCHANGED <<genres, instances, nextGenre, nextInst, req, res>>

bookinstance_create_post_begin ==
  \E body \in ConcInstBodies :
    /\ Len(tasks) < MaxRequests
    /\ Started(Task("bookinstance_create_post", 0, body,
                    IF InstErrors(body) # <<>> THEN "form" ELSE "save",
                    {body.book} \cap DOMAIN books))
    /\ UNCHANGED <<store, req, res>>

bookinstance_create_post_form ==
  \E i \in DOMAIN tasks :
    /\ At(i, "bookinstance_create_post", "form")
    /\ Resumed(i, [tasks[i] EXCEPT !.pc = "done", !.res = InstFormResponse(tasks[i].body)])
    /\ UNCHANGED <<store, req, res>>

bookinstance_create_post_save ==
  \E i \in DOMAIN tasks :
    /\ At(i, "bookinstance_create_post", "save")
    /\ Docs < MaxDocs
    /\ nextInst' = nextInst + 1
    /\ instances' = Save(instances, nextInst + 1, InstDoc(tasks[i].body))
    /\ Resumed(i, [tasks[i] EXCEPT !.pc = "done", !.docId = nextInst + 1,
                                   !.res = <<Redirect(Url("bookinstance", nextInst + 1))>>])
    /\ UNCHANGED <<genres, books, nextGenre, nextBook, req, res>>

\* The handler's code after its Promise.all: it runs once both lookups are in.
BookDeleteChecked(t) ==
  LET missing == IF ~t.entity THEN <<Redirect(BookList)>> ELSE <<>>
  IN IF ~(t.gotEntity /\ t.gotDeps) THEN t
     ELSE IF t.deps # {}
     THEN [t EXCEPT !.pc = "done", !.res = missing \o <<Render("book_delete", <<>>)>>]
     ELSE [t EXCEPT !.pc = "delete", !.res = missing]

GenreDeleteChecked(t) ==
  IF ~(t.gotEntity /\ t.gotDeps) THEN t
  ELSE IF t.deps # {}
  THEN [t EXCEPT !.pc = "done", !.res = <<Render("genre_delete", <<>>)>>]
  ELSE [t EXCEPT !.pc = "delete"]

book_delete_post_begin ==
  \E id \in BookIds :
    /\ Len(tasks) < MaxRequests
    /\ Started(Task("book_delete_post", id, <<>>, "lookup", {}))
    /\ UNCHANGED <<store, req, res>>

book_delete_post_findById ==
  \E i \in DOMAIN tasks :
    /\ At(i, "book_delete_post", "lookup")
    /\ ~tasks[i].gotEntity
    /\ Resumed(i, BookDeleteChecked([tasks[i] EXCEPT !.gotEntity = TRUE,
                                                     !.entity = Found(books, tasks[i].id)]))
    /\ UNCHANGED <<store, req, res>>

book_delete_post_find ==
  \E i \in DOMAIN tasks :
    /\ At(i, "book_delete_post", "lookup")
    /\ ~tasks[i].gotDeps
    /\ Resumed(i, BookDeleteChecked([tasks[i] EXCEPT !.gotDeps = TRUE,
                                                     !.deps = InstancesOfBook(instances, tasks[i].id)]))
    /\ UNCHANGED <<store, req, res>>

book_delete_post_delete ==
  \E i \in DOMAIN tasks :
    /\ At(i, "book_delete_post", "delete")
    /\ books' = FindByIdAndDelete(books, tasks[i].id)
    /\ Resumed(i, [tasks[i] EXCEPT !.pc = "done", !.res = @ \o <<Redirect(BookList)>>])
    /\ UNCHANGED <<genres, instances, nextGenre, nextBook, nextInst, req, res>>

genre_delete_post_begin ==
  \E id \in GenreIds :
    /\ Len(tasks) < MaxRequests
    /\ Started(Task("genre_delete_post", id, <<>>, "lookup", {}))
    /\ UNCHANGED <<store, req, res>>

genre_delete_post_findById ==
  \E i \in DOMAIN tasks :
    /\ At(i, "genre_delete_post", "lookup")
    /\ ~tasks[i].gotEntity
    /\ Resumed(i, GenreDeleteChecked([tasks[i] EXCEPT !.gotEntity = TRUE,
                                                      !.entity = Found(genres, tasks[i].id)]))
    /\ UNCHANGED <<store, req, res>>

genre_delete_post_find ==
  \E i \in DOMAIN tasks :
    /\ At(i, "genre_delete_post", "lookup")
    /\ ~tasks[i].gotDeps
    /\ Resumed(i, GenreDeleteChecked([tasks[i] EXCEPT !.gotDeps = TRUE,
                                                      !.deps = BooksInGenre(books, tasks[i].id)]))
    /\ UNCHANGED <<store, req, res>>

genre_delete_post_delete ==
  \E i \in DOMAIN tasks :
    /\ At(i, "genre_delete_post", "delete")
    /\ genres' = FindByIdAndDelete(genres, tasks[i].id)
    /\ Resumed(i, [tasks[i] EXCEPT !.pc = "done", !.res = @ \o <<Redirect(GenreList)>>])
    /\ UNCHANGED <<books, instances, nextGenre, nextBook, nextInst, req, res>>

NextConc ==
  \/ genre_create_post_begin
  \/ genre_create_post_findOne
  \/ genre_create_post_save
  \/ book_create_post_begin
  \/ book_create_post_form
  \/ book_create_post_save
  \/ bookinstance_create_post_begin
  \/ bookinstance_create_post_form
  \/ bookinstance_create_post_save
  \/ book_delete_post_begin
  \/ book_delete_post_findById
  \/ book_delete_post_find
  \/ book_delete_post_delete
  \/ genre_delete_post_begin
  \/ genre_delete_post_findById
  \/ genre_delete_post_find
  \/ genre_delete_post_delete

SpecConc == Init /\ [][NextConc]_vars

(***************************************************************************)
(* Properties.  In Spec every step handles one request: req' is the        *)
(* request of the step, the unprimed collections are the storage before it *)
(* and the primed ones the storage after it.                               *)
(***************************************************************************)
HasInstance(b) == \E i \in DOMAIN instances : instances[i].book = b
HasBook(g) == \E b \in DOMAIN books : \E k \in DOMAIN books[b].genre : books[b].genre[k] = g

\* C1: a book_delete_post for a stored Book that a stored BookInstance references
\* changes nothing in storage and answers with the book_delete view alone.
C1_DeleteRefused ==
  [][ (req'.handler = "book_delete_post" /\ req'.id \in DOMAIN books /\ HasInstance(req'.id))
        => (store' = store /\ res' = <<Render("book_delete", <<>>)>>) ]_vars

C1_Witness ==
  /\ req.handler = "book_delete_post"
  /\ req.id \in DOMAIN books
  /\ HasInstance(req.id)
  /\ req.bodyId = req.id
  /\ res = <<Render("book_delete", <<>>)>>

\* C2: a delete_post that names a stored entity without dependents (in its route
\* and in its form) removes exactly that entity, which find_by_id no longer
\* finds, and answers with one redirect to the entity's list.
C2_DeleteRemoves ==
  [][ /\ (req'.handler = "book_delete_post" /\ req'.bodyId = req'.id
            /\ req'.id \in DOMAIN books /\ ~HasInstance(req'.id))
          => (DOMAIN books' = DOMAIN books \ {req'.id} /\ ~Found(books', req'.id)
                /\ res' = <<Redirect(BookList)>>)
      /\ (req'.handler = "genre_delete_post" /\ req'.bodyId = req'.id
            /\ req'.id \in DOMAIN genres /\ ~HasBook(req'.id))
          => (DOMAIN genres' = DOMAIN genres \ {req'.id} /\ ~Found(genres', req'.id)
                /\ res' = <<Redirect(GenreList)>>)
      /\ (req'.handler = "bookinstance_delete_post" /\ req'.bodyId = req'.id
            /\ req'.id \in DOMAIN instances)
          => (DOMAIN instances' = DOMAIN instances \ {req'.id} /\ ~Found(instances', req'.id)
                /\ res' = <<Redirect(BookInstanceList)>>) ]_vars

\* The Book of the request was created (its id was generated), is gone, and the
\* handler answered with the single redirect it gives for a Book it found.
C2_Witness ==
  /\ req.handler = "book_delete_post"
  /\ req.bodyId = req.id
  /\ req.id <= nextBook
  /\ ~Found(books, req.id)
  /\ res = <<Redirect(BookList)>>

\* C3: a genre_create_post whose valid name (req.body.name as the validation chain
\* leaves it) equals a stored Genre's name ignoring case stores nothing and
\* redirects to the url of a stored Genre of that name.
C3_CreateIdempotent ==
  [][ (/\ req'.handler = "genre_create_post"
       /\ Len(Trim(req'.body.name)) >= MinGenreNameLen
       /\ \E g \in DOMAIN genres : Fold(genres[g].name) = Fold(Escape(Trim(req'.body.name))))
        => (/\ store' = store
            /\ \E g \in DOMAIN genres :
                 /\ Fold(genres[g].name) = Fold(Escape(Trim(req'.body.name)))
                 /\ res' = <<Redirect(Url("genre", g))>>) ]_vars

\* "Fan" then " fan ": one record, and the second request redirects to the first's url.
C3_Witness ==
  /\ req.handler = "genre_create_post"
  /\ nextGenre = 1
  /\ DOMAIN genres = {1}
  /\ genres[1].name = <<"F", "a", "n">>
  /\ req.body.name = <<" ", "f", "a", "n", " ">>
  /\ res = <<Redirect(Url("genre", 1))>>

\* C4: no two stored Genres have names that are equal ignoring case.
C4_NamesUnique ==
  \A g \in DOMAIN genres : \A h \in DOMAIN genres :
    g # h => Fold(genres[g].name) # Fold(genres[h].name)

\* C5: an update_post with valid data for a stored entity leaves the set of stored
\* ids as it was, stores the submitted (sanitized) field values under the same id
\* and answers with one redirect to the entity's detail url.
C5_UpdatePreservesId ==
  [][ /\ (req'.handler = "book_update_post" /\ BookErrors(req'.body) = <<>>
            /\ req'.id \in DOMAIN books)
          => (/\ DOMAIN books' = DOMAIN books
              /\ books'[req'.id].title = Escape(Trim(req'.body.title))
              /\ books'[req'.id].author = Escape(Trim(req'.body.author))
              /\ books'[req'.id].summary = Escape(Trim(req'.body.summary))
              /\ books'[req'.id].isbn = Escape(Trim(req'.body.isbn))
              /\ books'[req'.id].genre = req'.body.genre.v
              /\ res' = <<Redirect(Url("book", req'.id))>>)
      /\ (req'.handler = "genre_update_post" /\ GenreNameErrors(req'.body.name) = <<>>
            /\ req'.id \in DOMAIN genres)
          => (/\ DOMAIN genres' = DOMAIN genres
              /\ genres'[req'.id].name = Escape(Trim(req'.body.name))
              /\ res' = <<Redirect(Url("genre", req'.id))>>)
      /\ (req'.handler = "bookinstance_update_post" /\ InstErrors(req'.body) = <<>>
            /\ req'.id \in DOMAIN instances)
          => (/\ DOMAIN instances' = DOMAIN instances
              /\ instances'[req'.id].book = req'.body.book
              /\ instances'[req'.id].imprint = Escape(Trim(req'.body.imprint))
              /\ instances'[req'.id].status = Escape(req'.body.status)
              /\ instances'[req'.id].due_back = DueBack(req'.body.due_back)
              /\ res' = <<Redirect(Url("bookinstance", req'.id))>>) ]_vars

\* The stored Book carries the two genres and the title of the update request.
C5_Witness ==
  /\ req.handler = "book_update_post"
  /\ req.id \in DOMAIN books
  /\ req.body.genre = GenreArray(<<1, 2>>)
  /\ books[req.id].genre = <<1, 2>>
  /\ books[req.id].title = <<"t">>
  /\ res = <<Redirect(Url("book", req.id))>>

Posts == {"book_create_post", "book_update_post", "genre_create_post", "genre_update_post",
          "bookinstance_create_post", "bookinstance_update_post"}

Invalid(r) ==
  CASE r.handler \in {"book_create_post", "book_update_post"} -> BookErrors(r.body) # <<>>
    [] r.handler \in {"genre_create_post", "genre_update_post"} ->
         Len(Trim(r.body.name)) < MinGenreNameLen
    [] r.handler \in {"bookinstance_create_post", "bookinstance_update_post"} ->
         InstErrors(r.body) # <<>>
    [] OTHER -> FALSE

FormOf(r) ==
  CASE r.handler \in {"book_create_post", "book_update_post"} -> "book_form"
    [] r.handler \in {"genre_create_post", "genre_update_post"} -> "genre_form"
    [] OTHER -> "bookinstance_form"

\* C6: a create_post or update_post whose input fails validation leaves storage
\* unchanged and answers with one render of its form carrying a non-empty error list.
C6_InvalidRerenders ==
  [][ (req'.handler \in Posts /\ Invalid(req'))
        => (/\ store' = store
            /\ Len(res') = 1
            /\ res'[1].kind = "render"
            /\ res'[1].to = FormOf(req')
            /\ res'[1].errors # <<>>) ]_vars

\* C8: a delete_get (or book_delete_post) for a missing entity makes one response
\* call, the redirect to the entity's list, and changes nothing in storage.
C8_MissingRedirectsOnce ==
  [][ /\ (req'.handler \in {"book_delete_get", "book_delete_post"} /\ req'.id \notin DOMAIN books)
          => (res' = <<Redirect(BookList)>> /\ store' = store)
      /\ (req'.handler = "genre_delete_get" /\ req'.id \notin DOMAIN genres)
          => (res' = <<Redirect(GenreList)>> /\ store' = store)
      /\ (req'.handler = "bookinstance_delete_get" /\ req'.id \notin DOMAIN instances)
          => (res' = <<Redirect(BookInstanceList)>> /\ store' = store) ]_vars

\* C9: a record that book_delete_post or genre_delete_post removes is the one of
\* the route id, and it had no dependent when the handler looked.
C9_DeletesTheCheckedRecord ==
  [][ /\ req'.handler = "book_delete_post"
          => \A b \in DOMAIN books \ DOMAIN books' : b = req'.id /\ ~HasInstance(b)
      /\ req'.handler = "genre_delete_post"
          => \A g \in DOMAIN genres \ DOMAIN genres' : g = req'.id /\ ~HasBook(g) ]_vars

(***************************************************************************)
(* Properties of SpecConc.                                                 *)
(***************************************************************************)
\* C7: a genre_create_post task that found no Genre of its name saves its Genre
\* whatever has been stored since: the save adds one document of that name and
\* keeps every stored one.  Two tasks with names equal ignoring case can thus
\* both store theirs (C7_Witness).
C7_SaveAfterCheck ==
  [][ \A i \in DOMAIN tasks :
        (At(i, "genre_create_post", "save") /\ tasks'[i].pc = "done")
          => (/\ nextGenre' = nextGenre + 1
              /\ DOMAIN genres' = DOMAIN genres \cup {nextGenre'}
              /\ genres'[nextGenre'].name = Escape(Trim(tasks[i].body.name))
              /\ \A g \in DOMAIN genres : genres'[g] = genres[g]) ]_vars

C7_Witness ==
  \E i \in DOMAIN tasks : \E j \in DOMAIN tasks :
    /\ i # j
    /\ tasks[i].handler = "genre_create_post" /\ tasks[i].pc = "done" /\ tasks[i].docId # 0
    /\ tasks[j].handler = "genre_create_post" /\ tasks[j].pc = "done" /\ tasks[j].docId # 0
    /\ tasks[i].docId \in DOMAIN genres
    /\ tasks[j].docId \in DOMAIN genres
    /\ Fold(genres[tasks[i].docId].name) = Fold(genres[tasks[j].docId].name)

\* C10: no stored BookInstance, created by a request that started while its Book
\* existed, references a Book that is deleted; no stored Book, created by a request
\* that started while its Genre existed, references a Genre that is deleted.
C10_GuardUnderInterleaving ==
  \A i \in DOMAIN tasks :
    /\ (tasks[i].handler = "bookinstance_create_post" /\ tasks[i].docId \in DOMAIN instances)
         => tasks[i].live \subseteq DOMAIN books
    /\ (tasks[i].handler = "book_create_post" /\ tasks[i].docId \in DOMAIN books)
         => tasks[i].live \subseteq DOMAIN genres

====
